---- MODULE Spec2Model ----
(***************************************************************************)
(* Model of scripts/pySCA/scaProcessMSA.py: the MSA pre-processing         *)
(* pipeline (option pre-check, alignment clean-up, reference resolution,   *)
(* ATS building, distance-matrix remap, sequence / position filtering,     *)
(* down-selection, final weighting and the output writes).                 *)
(*                                                                         *)
(* Python indices are 0-based and are kept 0-based in the variables        *)
(* (i_ref, seqkeep, iposkeep); TLA+ sequences are 1-based, so an access    *)
(* x[i] of the script reads x[i + 1] here.                                 *)
(* Position labels are integers; the gap label '-' of an ATS is GapLabel.  *)
(* Weights and thresholds are fractions, pairs <<numerator, denominator>>.  *)
(***************************************************************************)
EXTENDS Integers, Sequences, FiniteSets, TLC

\* ------------------------------------------------------------------ bounds
MaxSeqs == 2          \* sequences in an input alignment: 1..MaxSeqs
MaxFreq == 3          \* records of a frequency file: 0..MaxFreq
MaxDssp == 2          \* records of a DSSP file: 0..MaxDssp

\* --------------------------------------------------------------- constants
NoIndex == -1         \* Python None for an index
GapLabel == -1        \* the ATS label '-'
UNREACHABLE == 1000   \* distance written for a column without a position
Fail == NoIndex - 1        \* a collaborator raised instead of returning an index
NotCalled == NoIndex - 2   \* a collaborator that the run did not call

Gap == "-"
StandardAA == {"A","C","D","E","F","G","H","I","K","L","M","N","P","Q","R",
               "S","T","V","W","Y","-"}

\* ------------------------------------------------------- input universes
SeqPool ==
  { <<"A","C","D">>, <<"A","-","D">>, <<"-","C","-">>, <<"A","B","D">> }

RECURSIVE TuplesUpTo(_, _)
TuplesUpTo(S, n) ==
  IF n = 0 THEN { <<>> }
  ELSE LET shorter == TuplesUpTo(S, n - 1)
       IN  shorter \cup { Append(t, s) : t \in { u \in shorter : Len(u) = n - 1 }, s \in S }

AlignmentFiles == { a \in TuplesUpTo(SeqPool, MaxSeqs) : Len(a) >= 1 }

\* [max_frac_gaps pos, max_frac_gaps seq, min SID, max SID], each <<num, den>>
ParameterSets ==
  { << <<1,5>>, <<1,5>>, <<1,5>>, <<4,5>> >>,     \* the default 0.2 0.2 0.2 0.8
    << <<0,1>>, <<1,1>>, <<0,1>>, <<1,1>> >>,     \* 0 1 0 1
    << <<1,1>>, <<1,1>>, <<0,1>>, <<1,1>> >> }    \* 1 1 0 1

RawDistance(i, j) == IF i = j THEN 0 ELSE 3 * (i + j) + i * j

DistMatrix(n) == [i \in 1..n |-> [j \in 1..n |-> RawDistance(i, j)]]

\* what the structure lookup can return
Structures ==
  { [seq |-> <<"A","C","D">>, ats |-> <<10, 11, 12>>, dist |-> DistMatrix(3)],
    [seq |-> <<"A","C","D">>, ats |-> <<10, 10, 12>>, dist |-> DistMatrix(3)],
    [seq |-> <<"A","D">>,     ats |-> <<10, 11>>,     dist |-> DistMatrix(2)] }

\* the single sequence of a reference-sequence file
RefSeqFiles == { <<"A","D">>, <<"A","C","D","E">> }

\* the lines of a readable position file
RefPosFiles == { <<5, 6, 7>>, <<5, 6>> }

\* a sequence weight is 1 / n, kept as <<numerator, denominator>>
SeqWeightValues == { <<1, 1>>, <<1, 2>> }

Options ==
  [ i_ref : {NoIndex, 0, 1},
    pdbid : BOOLEAN, species : BOOLEAN, refseq : BOOLEAN,
    refpos : {"none", "ok", "bad"},
    truncate : BOOLEAN, parameters : ParameterSets ]

\* --selectSeqs and --matlab are drawn where the script reads them
Flags == BOOLEAN

\* ---------------------------------------------------------------- helpers
\* the increasing list of the 0-based indices i - 1 of the places i in kept
KeptIndices(n, kept) ==
  LET F[i \in 0..n] ==
        IF i = 0 THEN <<>>
        ELSE IF i \in kept THEN Append(F[i - 1], i - 1) ELSE F[i - 1]
  IN  F[n]

\* [x[i] for i in idx], idx 0-based
Pick(x, idx) == [n \in 1..Len(idx) |-> x[idx[n] + 1]]

Range(n) == [i \in 1..n |-> i - 1]            \* Python range(n)

\* seqw.sum() as an exact fraction <<numerator, denominator>>
SumWeights(w) ==
  LET F[i \in 0..Len(w)] ==
        IF i = 0 THEN <<0, 1>>
        ELSE << F[i - 1][1] * w[i][2] + w[i][1] * F[i - 1][2], F[i - 1][2] * w[i][2] >>
  IN  F[Len(w)]

Floor(q) == q[1] \div q[2]                    \* int() of a non-negative fraction

CountGaps(s) == Cardinality({ i \in 1..Len(s) : s[i] = Gap })

NoDist == [defined |-> FALSE, m |-> <<>>]
Matrix(m) == [defined |-> TRUE, m |-> m]


\* ------------------------------------------------------------------- state
VARIABLES
  pc,              \* position in the script
  options,         \* the parsed command line (after the pre-check once pc # "start")
  input,           \* the alignment file: its sequences, in file order
  argv,            \* the command line as given, before the pre-check
  headers_full,    \* headers, each the 0-based position of its sequence in the file
  sequences_full,  \* the alignment after clean-up and initial trimming
  sequences_ori,   \* the alignment after clean-up, before the initial trimming
  i_ref,           \* the reference index
  struct,          \* what pdbSeq returned (seq_pdb, ats_pdb, raw distances)
  search,          \* what MSAsearch answered: [species, global]
  s_tmp, ats_tmp,  \* reference sequence and raw position list handed to makeATS
  sequences, ats,  \* the alignment and ATS that makeATS returned
  dist_pdb,        \* the remapped distance matrix, when defined
  seqw0, seqkeep,  \* filterSeq: weights and kept indices
  filterRef,       \* the reference index handed to filterSeq
  alg0, headers,   \* filterSeq: the kept sequences and their headers
  alg1, iposkeep,  \* filterPos: alignment and kept columns
  distmat,         \* the re-sliced distance matrix
  effseqsprelimit,
  target,          \* the count requested from randSel
  alg, hd,         \* the final alignment and headers
  msa_shape,       \* <<Nseq, Npos>> of the final alignment
  D,               \* the stored result
  files,           \* the output files written so far
  calls,           \* the collaborators invoked so far
  completed,       \* the pipeline stages that have run to their end
  err,             \* why the run ended fatally
  \* predicted_single_HF_mutations.py, merge_data
  freq_data,       \* the records (ref_aa, highest_freq_aa, freq_val), in file order
  dssp_data,       \* the records (pos, ref_aa, ss), in file order
  merged,          \* the list that merge_data builds
  merge_i,         \* the loop index i into freq_data
  merge_j,         \* the pointer j into dssp_data
  pos_counter,
  mpc              \* position in merge_data

merge_vars == << freq_data, dssp_data, merged, merge_i, merge_j, pos_counter, mpc >>

vars == << pc, options, input, argv, headers_full, sequences_full, sequences_ori, i_ref,
           struct, search, s_tmp, ats_tmp, sequences, ats, dist_pdb, seqw0, seqkeep,
           filterRef, alg0, headers, alg1, iposkeep, distmat, effseqsprelimit, target,
           alg, hd, msa_shape, D, files, calls, completed, err, merge_vars >>

NoStruct == [seq |-> <<>>, ats |-> <<>>, dist |-> <<>>]
NoSearch == [species |-> NotCalled, global |-> NotCalled]
NoD == [written |-> FALSE]

\* merge_data is not called by the pipeline script
MergeIdle ==
  /\ freq_data = <<>> /\ dssp_data = <<>> /\ merged = <<>>
  /\ merge_i = 0 /\ merge_j = 0 /\ pos_counter = 1
  /\ mpc = "idle"

Init ==
  /\ MergeIdle
  /\ pc = "start"
  /\ options \in Options
  /\ input \in AlignmentFiles
  /\ argv = options
  /\ headers_full = <<>> /\ sequences_full = <<>> /\ sequences_ori = <<>>
  /\ i_ref = NoIndex
  /\ struct = NoStruct /\ search = NoSearch
  /\ s_tmp = <<>> /\ ats_tmp = <<>>
  /\ sequences = <<>> /\ ats = <<>>
  /\ dist_pdb = NoDist
  /\ seqw0 = <<>> /\ seqkeep = <<>> /\ filterRef = NotCalled
  /\ alg0 = <<>> /\ headers = <<>> /\ msa_shape = <<0, 0>>
  /\ alg1 = <<>> /\ iposkeep = <<>>
  /\ distmat = NoDist
  /\ effseqsprelimit = 0 /\ target = NotCalled
  /\ alg = <<>> /\ hd = <<>>
  /\ D = NoD
  /\ files = {} /\ calls = {} /\ completed = {} /\ err = "none"


\* ------------------------------------------------------- program order
\* the script is straight-line code: each step runs after the one before it
ProgramOrderFastaFirst ==
  << "start", "read", "fasta", "resolve", "filterSeq", "filterPos", "select",
     "weights", "mat", "db", "done" >>

ProgramOrder ==
  << "start", "read", "resolve", "filterSeq", "filterPos", "select", "weights",
     "fasta", "mat", "db", "done" >>

After(step) ==
  LET i == CHOOSE n \in 1..Len(ProgramOrder) : ProgramOrder[n] = step
  IN  ProgramOrder[i + 1]

Stages == {"resolve", "filterSeq", "filterPos", "select", "weights"}

\* --------------------------------------------------- option pre-check
\* lines 92-108: hints that are dropped before anything is read
PreCheckKeepsPdbWithPositions(o) ==
  IF o.i_ref = NoIndex
  THEN LET o1 == IF o.species /\ ~o.pdbid THEN [o EXCEPT !.species = FALSE] ELSE o
           o2 == IF o1.refseq /\ o1.refpos = "none" /\ o1.pdbid
                 THEN [o1 EXCEPT !.pdbid = FALSE] ELSE o1
       IN  o2
  ELSE o

PreCheck(o) ==
  IF o.i_ref = NoIndex
  THEN LET o1 == IF o.species /\ ~o.pdbid THEN [o EXCEPT !.species = FALSE] ELSE o
           o2 == IF o1.refseq /\ o1.refpos = "none" /\ o1.pdbid
                 THEN [o1 EXCEPT !.pdbid = FALSE] ELSE o1
           o3 == IF o2.refseq /\ o2.refpos # "none" /\ o2.pdbid
                 THEN [o2 EXCEPT !.pdbid = FALSE] ELSE o2
       IN  o3
  ELSE o

\* line 139 / 209: an explicit index takes the else branch of the dispatch
ExplicitFirstUnlessPdb(o) == o.i_ref # NoIndex /\ ~o.pdbid

UseExplicitIndex(o) == o.i_ref # NoIndex

\* lines 139-209: which resolution branch runs
Branch(o) ==
  IF UseExplicitIndex(o) THEN "index"
  ELSE IF o.pdbid THEN "pdb"
  ELSE IF o.refseq THEN "refseq"
  ELSE "auto"

\* --------------------------------------------------- alignment clean-up
IsStandard(s) == \A i \in 1..Len(s) : s[i] \in StandardAA

\* lines 116-128: 0-based file positions of the sequences that are kept
StandardIndices(seqs) ==
  KeptIndices(Len(seqs), { i \in 1..Len(seqs) : IsStandard(seqs[i]) })

\* ----------------------------------------------------- collaborators
\* filterPos(alg, seqw, max_fracgaps): columns whose weighted gap fraction
\* exceeds max_fracgaps are removed; seqw = [1] weighs every sequence alike
UniformWeights(n) == [i \in 1..n |-> <<1, 1>>]

GapWeight(algn, w, c) ==
  SumWeights([s \in 1..Len(algn) |-> IF algn[s][c] = Gap THEN w[s] ELSE <<0, 1>>])

\* a / b > c / d for non-negative fractions
Exceeds(p, q) == p[1] * q[2] > q[1] * p[2]

\* (x / t) as a fraction, for t # 0
Ratio(x, t) == << x[1] * t[2], x[2] * t[1] >>

filterPos(algn, w, maxfrac) ==
  IF Len(algn) = 0 THEN [alg |-> <<>>, keep |-> <<>>]
  ELSE LET total == SumWeights(w)
           keep == KeptIndices(Len(algn[1]),
                     { c \in 1..Len(algn[1]) :
                         ~Exceeds(Ratio(GapWeight(algn, w, c), total), maxfrac) })
       IN  [alg |-> [s \in 1..Len(algn) |-> Pick(algn[s], keep)], keep |-> keep]

Identity(a, b) == Cardinality({ i \in 1..Len(a) : a[i] = b[i] })

\* filterSeq(alg, sref, max_fracgaps, min_seqid, max_seqid): the kept indices
filterSeqKeep(algn, sref, maxgaps, minid, maxid) ==
  LET npos == Len(algn[1])
      ref == algn[sref + 1]
      Keep(s) ==
        /\ ~Exceeds(<<CountGaps(algn[s]), npos>>, maxgaps)
        /\ ~Exceeds(minid, <<Identity(algn[s], ref), npos>>)
        /\ ~Exceeds(<<Identity(algn[s], ref), npos>>, maxid)
  IN  KeptIndices(Len(algn), { s \in 1..Len(algn) : Keep(s) })

\* makeATS(sequences, refpos, refseq, iref, truncate)
NonGapColumns(ref) == KeptIndices(Len(ref), { c \in 1..Len(ref) : ref[c] # Gap })

makeATS(seqs, refpos, refseq, iref, truncate) ==
  IF iref < 0 \/ iref >= Len(seqs) THEN [ok |-> FALSE]
  ELSE LET ref == seqs[iref + 1]
           cols == NonGapColumns(ref)
           rank(c) == Cardinality({ d \in 1..c : ref[d] # Gap })
       IN  IF Len(refpos) < Len(cols) THEN [ok |-> FALSE]
           ELSE IF truncate
           THEN [ok |-> TRUE,
                 sequences |-> [s \in 1..Len(seqs) |-> Pick(seqs[s], cols)],
                 ats |-> [n \in 1..Len(cols) |-> refpos[n]]]
           ELSE [ok |-> TRUE,
                 sequences |-> seqs,
                 ats |-> [c \in 1..Len(ref) |->
                            IF ref[c] = Gap THEN GapLabel ELSE refpos[rank(c)]]]

\* what MSAsearch can answer on an alignment of n sequences
SearchResults(n) == {Fail} \cup (0..(n - 1))


\* ------------------------------------------------ distance-matrix remap
\* list.index(x): the first 1-based place of x, 0 when x is absent (ValueError)
IndexOf(list, x) ==
  IF \E i \in 1..Len(list) : list[i] = x
  THEN CHOOSE i \in 1..Len(list) : list[i] = x /\ \A h \in 1..(i - 1) : list[h] # x
  ELSE 0

\* line 173: the entries the loop writes; the others keep np.zeros' 0
RemapUpperOnly(j, k) == k > j

RemapFilled(j, k) == k # j

\* lines 174-179
RemapEntry(pos1, pos2, ats_pdb, dist) ==
  IF pos1 = GapLabel \/ pos2 = GapLabel
  THEN UNREACHABLE
  ELSE dist[IndexOf(ats_pdb, pos1)][IndexOf(ats_pdb, pos2)]

\* a label that ats_pdb does not hold makes line 177 / 178 raise
RemapRaises(a, ats_pdb) ==
  \E j, k \in 1..Len(a) :
    /\ RemapFilled(j, k)
    /\ a[j] # GapLabel /\ a[k] # GapLabel
    /\ (IndexOf(ats_pdb, a[j]) = 0 \/ IndexOf(ats_pdb, a[k]) = 0)

\* lines 170-180
Remap(a, ats_pdb, dist) ==
  [j \in 1..Len(a) |-> [k \in 1..Len(a) |->
     IF RemapFilled(j, k) THEN RemapEntry(a[j], a[k], ats_pdb, dist) ELSE 0]]

\* lines 143-167: the index the searches settle on, Fail when none does
SearchPdbFirstOnFail(species, sp, gl) ==
  IF species THEN (IF sp # Fail THEN sp ELSE 0) ELSE gl

SearchPdb(species, sp, gl) ==
  IF species THEN (IF sp # Fail THEN sp ELSE gl) ELSE gl

\* ---------------------------------------------------------------- actions
Exit(e) == pc' = "fatal" /\ err' = e

\* lines 64-108: parse the command line, create the output directory, pre-check
Start ==
  /\ pc = "start"
  /\ options' = PreCheck(options)
  /\ i_ref' = options.i_ref
  /\ pc' = After("start")
  /\ UNCHANGED << merge_vars, input, argv, headers_full, sequences_full, sequences_ori, struct, search,
                  s_tmp, ats_tmp, sequences, ats, dist_pdb, seqw0, seqkeep, filterRef,
                  alg0, headers, alg1, iposkeep, distmat, effseqsprelimit, target, alg,
                  hd, msa_shape, D, files, calls, completed, err >>

\* lines 110-136: read, drop sequences with non-standard letters, initial trimming
ReadAlignment ==
  /\ pc = "read"
  /\ LET keep == StandardIndices(input)
         clean == Pick(input, keep)
     IN  IF Len(clean) = 0
         THEN /\ Exit("empty")
              /\ UNCHANGED << headers_full, sequences_full, sequences_ori >>
         ELSE /\ headers_full' = keep
              /\ sequences_ori' = clean
              /\ sequences_full' = filterPos(clean, UniformWeights(Len(clean)), <<4, 5>>).alg
              /\ pc' = After("read")
              /\ err' = err
  /\ UNCHANGED << merge_vars, options, input, argv, i_ref, struct, search, s_tmp, ats_tmp, sequences, ats,
                  dist_pdb, seqw0, seqkeep, filterRef, alg0, headers, alg1, iposkeep,
                  distmat, effseqsprelimit, target, alg, hd, msa_shape, D, files, calls,
                  completed >>

unresolved == << i_ref, sequences, ats, dist_pdb, completed >>
downstream == << merge_vars, options, input, argv, headers_full, sequences_full, sequences_ori, seqw0,
                 seqkeep, filterRef, alg0, headers, alg1, iposkeep, distmat,
                 effseqsprelimit, target, alg, hd, msa_shape, D, files >>

\* lines 140-182: the PDB branch. Every sys.exit inside the outer try raises
\* SystemExit, which the bare except of line 181 catches and exits in turn.
ResolvePdb ==
  /\ pc = "resolve"
  /\ Branch(options) = "pdb"
  /\ \/ /\ calls' = calls \cup {"pdbSeq"}                       \* pdbSeq raises
        /\ Exit("fetch")
        /\ UNCHANGED << struct, search, unresolved >>
     \/ \E st \in Structures :
        \E sp \in IF options.species THEN SearchResults(Len(sequences_full)) ELSE {NotCalled} :
        \E gl \in IF options.species /\ sp # Fail
                  THEN {NotCalled} ELSE SearchResults(Len(sequences_full)) :
          LET i == SearchPdb(options.species, sp, gl)
              m == makeATS(sequences_full, st.ats, st.seq, i, options.truncate)
          IN  /\ calls' = calls \cup {"pdbSeq", "MSAsearch"}
              /\ struct' = st
              /\ search' = [species |-> sp, global |-> gl]
              /\ IF i = Fail
                 THEN Exit("search") /\ UNCHANGED unresolved
                 ELSE IF ~m.ok \/ RemapRaises(m.ats, st.ats)
                 THEN Exit("ats") /\ UNCHANGED unresolved
                 ELSE /\ i_ref' = i
                      /\ sequences' = m.sequences
                      /\ ats' = m.ats
                      /\ dist_pdb' = Matrix(Remap(m.ats, st.ats, st.dist))
                      /\ completed' = completed \cup {"resolve"}
                      /\ pc' = After("resolve")
                      /\ err' = err
  /\ UNCHANGED << downstream, s_tmp, ats_tmp >>


\* lines 190-199: the raw position list of the reference-sequence branch; an
\* unreadable position file is absorbed by the inner except
RefseqPositions(refpos, lines, seqs_full) ==
  IF refpos = "ok" THEN lines ELSE Range(Len(seqs_full[1]))

\* lines 183-202: the reference-sequence-file branch
ResolveRefseq ==
  /\ pc = "resolve"
  /\ Branch(options) = "refseq"
  /\ \/ /\ calls' = calls \cup {"readAlg"}                      \* readAlg raises
        /\ Exit("refseq")
        /\ UNCHANGED << search, s_tmp, ats_tmp, unresolved >>
     \/ \E ref \in RefSeqFiles :
        \E gl \in SearchResults(Len(sequences_full)) :
        \E lines \in IF options.refpos = "ok" THEN RefPosFiles ELSE { <<>> } :
          LET pos == RefseqPositions(options.refpos, lines, sequences_full)
              m == makeATS(sequences_full, pos, ref, gl, options.truncate)
          IN  /\ calls' = calls \cup {"readAlg", "MSAsearch"}
              /\ search' = [species |-> NotCalled, global |-> gl]
              /\ s_tmp' = ref
              /\ IF gl = Fail
                 THEN Exit("search") /\ UNCHANGED << ats_tmp, unresolved >>
                 ELSE IF ~m.ok
                 THEN Exit("ats") /\ ats_tmp' = pos /\ UNCHANGED unresolved
                 ELSE /\ i_ref' = gl
                      /\ ats_tmp' = pos
                      /\ sequences' = m.sequences
                      /\ ats' = m.ats
                      /\ completed' = completed \cup {"resolve"}
                      /\ pc' = After("resolve")
                      /\ UNCHANGED << dist_pdb, err >>
  /\ UNCHANGED << downstream, struct >>

\* lines 203-208: no hint at all, chooseRefSeq picks the reference
ResolveAuto ==
  /\ pc = "resolve"
  /\ Branch(options) = "auto"
  /\ \E i \in 0..(Len(sequences_full) - 1) :
       /\ i_ref' = i
       /\ calls' = calls \cup {"chooseRefSeq"}
  /\ sequences' = sequences_full
  /\ ats' = Range(Len(sequences_full[1]))
  /\ completed' = completed \cup {"resolve"}
  /\ pc' = After("resolve")
  /\ UNCHANGED << downstream, struct, search, s_tmp, ats_tmp, dist_pdb, err >>

\* lines 214-219 raise when the position file cannot be read: the open is
\* inside the try whose except exits
IndexPositionsRaise(refpos) == refpos = "bad"

\* lines 215-219: the raw position list of the explicit-index branch
IndexPositions(refpos, lines, seqs_ori) ==
  IF refpos = "ok" THEN lines ELSE Range(Len(seqs_ori[1]))

\* lines 209-222: the explicit-index branch
ResolveIndex ==
  /\ pc = "resolve"
  /\ Branch(options) = "index"
  /\ IF i_ref >= Len(headers_full)
     THEN /\ Exit("index")                               \* line 212: IndexError
          /\ UNCHANGED << s_tmp, ats_tmp, sequences, ats, completed >>
     ELSE IF IndexPositionsRaise(options.refpos)
     THEN /\ Exit("refpos")
          /\ s_tmp' = sequences_ori[i_ref + 1]
          /\ UNCHANGED << ats_tmp, sequences, ats, completed >>
     ELSE \E lines \in IF options.refpos = "ok" THEN RefPosFiles ELSE { <<>> } :
          LET pos == IndexPositions(options.refpos, lines, sequences_ori)
              m == makeATS(sequences_full, pos, sequences_ori[i_ref + 1], i_ref,
                           options.truncate)
          IN  /\ s_tmp' = sequences_ori[i_ref + 1]
              /\ ats_tmp' = pos
              /\ IF ~m.ok
                 THEN Exit("ats") /\ UNCHANGED << sequences, ats, completed >>
                 ELSE /\ sequences' = m.sequences
                      /\ ats' = m.ats
                      /\ completed' = completed \cup {"resolve"}
                      /\ pc' = After("resolve")
                      /\ err' = err
  /\ UNCHANGED << downstream, i_ref, struct, search, dist_pdb, calls >>


inputs == << merge_vars, options, input, argv, headers_full, sequences_full, sequences_ori >>
resolved == << i_ref, struct, search, s_tmp, ats_tmp, sequences, dist_pdb, calls >>

\* lines 224-244: sequence filtering against the reference
FilterSequences ==
  /\ pc = "filterSeq"
  /\ LET p == options.parameters
         sref == IF i_ref # NoIndex THEN i_ref ELSE 0
         keep == filterSeqKeep(sequences, sref, p[2], p[3], p[4])
     IN  /\ filterRef' = i_ref
         /\ seqkeep' = keep
         /\ alg0' = Pick(sequences, keep)
         /\ headers' = Pick(headers_full, keep)
         /\ seqw0' \in [1..Len(keep) -> SeqWeightValues]
  /\ completed' = completed \cup {"filterSeq"}
  /\ pc' = After("filterSeq")
  /\ UNCHANGED << inputs, resolved, ats, alg1, iposkeep, distmat, effseqsprelimit,
                  target, alg, hd, msa_shape, D, files, err >>

\* line 246: the ATS follows the kept columns
AtsNotResliced(a, idx) == a

ResliceAts(a, idx) == Pick(a, idx)

\* line 250: dist_pdb[np.ix_(iposkeep, iposkeep)]
SliceLeading(m, idx) == [a \in 1..Len(idx) |-> [b \in 1..Len(idx) |-> m[a][b]]]

SliceMatrix(m, idx) ==
  [a \in 1..Len(idx) |-> [b \in 1..Len(idx) |-> m[idx[a] + 1][idx[b] + 1]]]

\* lines 245-257: position filtering, re-slicing, effective sequence count.
\* With no sequence left, len(alg1[0]) of line 257 raises IndexError.
FilterPositions ==
  /\ pc = "filterPos"
  /\ LET fp == filterPos(alg0, seqw0, options.parameters[1])
     IN  IF Len(fp.alg) = 0
         THEN /\ Exit("empty")
              /\ UNCHANGED << alg1, iposkeep, ats, distmat, effseqsprelimit, completed >>
         ELSE /\ alg1' = fp.alg
              /\ iposkeep' = fp.keep
              /\ ats' = ResliceAts(ats, fp.keep)
              /\ distmat' = IF dist_pdb.defined
                            THEN Matrix(SliceMatrix(dist_pdb.m, fp.keep))
                            ELSE NoDist
              /\ effseqsprelimit' = Floor(SumWeights(seqw0))
              /\ completed' = completed \cup {"filterPos"}
              /\ pc' = After("filterPos")
              /\ err' = err
  /\ UNCHANGED << inputs, resolved, seqw0, seqkeep, filterRef, alg0, headers, target,
                  alg, hd, msa_shape, D, files >>

\* line 261: int(1.5 * effseqsprelimit)
SelectTarget(eff) == (3 * eff) \div 2

\* line 261: [seqkeep.index(i_ref)] if i_ref in seqkeep else []
MustKeep(keep, ref) ==
  IF \E n \in 1..Len(keep) : keep[n] = ref THEN { IndexOf(keep, ref) - 1 } ELSE {}

\* randSel(seqw, Mtot, keepSeq): the selections it can return
randSel(n, count, must) ==
  LET size == IF count < n THEN count ELSE n
      want == IF size < Cardinality(must) THEN Cardinality(must) ELSE size
  IN  { KeptIndices(n, { i + 1 : i \in T }) :
          T \in { U \in SUBSET (0..(n - 1)) : must \subseteq U /\ Cardinality(U) = want } }

\* lines 259-266: optional down-selection
SelectSequences ==
  /\ pc = "select"
  /\ \E Nselect \in Flags :
     IF Nselect
     THEN /\ target' = SelectTarget(effseqsprelimit)
          /\ \E sel \in randSel(Len(alg1), SelectTarget(effseqsprelimit),
                                MustKeep(seqkeep, i_ref)) :
               /\ alg' = Pick(alg1, sel)
               /\ hd' = Pick(headers, sel)
     ELSE /\ alg' = alg1
          /\ hd' = headers
          /\ target' = target
  /\ completed' = completed \cup {"select"}
  /\ pc' = After("select")
  /\ UNCHANGED << inputs, resolved, ats, seqw0, seqkeep, filterRef, alg0, headers, alg1,
                  iposkeep, distmat, effseqsprelimit, msa_shape, D, files, err >>

\* lines 268-282: final weights and the numeric alignment; an alignment with
\* no sequence has no shape to unpack
FinalWeights ==
  /\ pc = "weights"
  /\ IF Len(alg) = 0
     THEN Exit("empty") /\ UNCHANGED << msa_shape, completed >>
     ELSE /\ msa_shape' = << Len(alg), Len(alg[1]) >>
          /\ completed' = completed \cup {"weights"}
          /\ pc' = After("weights")
          /\ err' = err
  /\ UNCHANGED << inputs, resolved, ats, seqw0, seqkeep, filterRef, alg0, headers, alg1,
                  iposkeep, distmat, effseqsprelimit, target, alg, hd, D, files >>

computed == << inputs, resolved, ats, seqw0, seqkeep, filterRef, alg0, headers, alg1,
               iposkeep, distmat, effseqsprelimit, target, alg, hd, msa_shape,
               completed >>

\* lines 300-325: the stored result
Result ==
  [ alg |-> alg, hd |-> hd, Nseq |-> msa_shape[1], Npos |-> msa_shape[2], ats |-> ats,
    distmat |-> distmat, pdbid |-> distmat.defined /\ options.pdbid,
    NseqPrelimit |-> Len(alg1), effseqsPrelimit |-> effseqsprelimit, i_ref |-> i_ref ]

\* lines 284-325: write the FASTA file and build the result
WriteFasta ==
  /\ pc = "fasta"
  /\ files' = files \cup {"fasta"}
  /\ D' = Result
  /\ pc' = After("fasta")
  /\ UNCHANGED << computed, err >>

\* lines 327-330: the optional MAT file; savemat can raise
WriteMat ==
  /\ pc = "mat"
  /\ \E matfile \in Flags :
     IF matfile
     THEN \/ files' = files \cup {"mat"} /\ pc' = After("mat") /\ err' = err
          \/ files' = files /\ Exit("write")
     ELSE files' = files /\ pc' = After("mat") /\ err' = err
  /\ UNCHANGED << computed, D >>

\* lines 332-342: the pickled DB file; the dump can raise
WriteDb ==
  /\ pc = "db"
  /\ \/ files' = files \cup {"db"} /\ pc' = After("db") /\ err' = err
     \/ files' = files /\ Exit("write")
  /\ UNCHANGED << computed, D >>

Next ==
  \/ Start
  \/ ReadAlignment
  \/ ResolvePdb
  \/ ResolveRefseq
  \/ ResolveAuto
  \/ ResolveIndex
  \/ FilterSequences
  \/ FilterPositions
  \/ SelectSequences
  \/ FinalWeights
  \/ WriteFasta
  \/ WriteMat
  \/ WriteDb

Spec == Init /\ [][Next]_vars


\* ================================================================ claims
ResolutionErrors == {"fetch", "search", "ats", "refseq", "refpos", "index"}

IsSquare(m, n) == Len(m) = n /\ \A r \in 1..n : Len(m[r]) = n

\* the matrix and ATS still describe the columns that makeATS returned
BeforePositionFilter == "resolve" \in completed /\ "filterPos" \notin completed

\* C1: with an explicit reference index, whatever the other hints, the index
\* used for sequence filtering and the stored index are the supplied one, and
\* neither the structure lookup nor the best-match search is ever invoked.
C1_ExplicitIndexWins ==
  options.i_ref # NoIndex =>
    /\ calls \cap {"pdbSeq", "MSAsearch"} = {}
    /\ (pc # "start" => i_ref = options.i_ref)
    /\ (filterRef # NotCalled => filterRef = options.i_ref)
    /\ ("fasta" \in files => D.i_ref = options.i_ref)

C1_Witness ==
  /\ pc = "done"
  /\ options.i_ref = 1 /\ options.pdbid /\ options.species /\ options.refseq
  /\ options.refpos = "ok"
  /\ filterRef = 1 /\ D.i_ref = 1

\* C2: in the PDB branch with a species hint, when the species-constrained
\* search fails the resolved index is the answer of the unconstrained search,
\* and when that fails too the run ends fatally before sequence filtering.
C2_SpeciesFallback ==
  search.species = Fail =>
    IF search.global = Fail
    THEN pc = "fatal" /\ "resolve" \notin completed /\ filterRef = NotCalled
    ELSE "resolve" \in completed => i_ref = search.global

C2_Witness ==
  /\ search.species = Fail /\ search.global = 1
  /\ pc = "done" /\ i_ref = 1 /\ filterRef = 1

\* C3 as stated: a column j without a structure position has the unreachable
\* value in every entry of its row, the diagonal entry included.
C3_GapRowAllUnreachable ==
  (BeforePositionFilter /\ dist_pdb.defined) =>
    \A j, k \in 1..Len(ats) : ats[j] = GapLabel => dist_pdb.m[j][k] = UNREACHABLE

\* C3 amended: a column j without a structure position has the unreachable
\* value in every entry [j,k] with k # j of its row, and 0 on the diagonal.
C3_GapRowUnreachableOffDiagonal ==
  (BeforePositionFilter /\ dist_pdb.defined) =>
    \A j, k \in 1..Len(ats) :
      ats[j] = GapLabel => dist_pdb.m[j][k] = IF k = j THEN 0 ELSE UNREACHABLE

C3_Witness ==
  /\ BeforePositionFilter /\ dist_pdb.defined
  /\ Len(ats) = 3 /\ ats[2] = GapLabel /\ ats[1] # GapLabel
  /\ dist_pdb.m[2][1] = UNREACHABLE /\ dist_pdb.m[2][3] = UNREACHABLE

\* the raw structural distance between the raw positions that two labels name
RawLabelsDistinct ==
  \A a, b \in 1..Len(struct.ats) : a # b => struct.ats[a] # struct.ats[b]

RawDistanceOf(l1, l2) ==
  LET p1 == CHOOSE i \in 1..Len(struct.ats) : struct.ats[i] = l1
      p2 == CHOOSE i \in 1..Len(struct.ats) : struct.ats[i] = l2
  IN  struct.dist[p1][p2]

ConsistentWith(m, a) ==
  \A x, y \in 1..Len(a) :
    (x # y /\ a[x] # GapLabel /\ a[y] # GapLabel) => m[x][y] = RawDistanceOf(a[x], a[y])

\* C4: with pairwise distinct raw labels the distance matrix is consistent
\* with the live columns, after the remap and in the final output: the entry
\* of two distinct columns with real labels is the raw distance of the raw
\* positions that the two labels name.
C4_MatrixFollowsColumns ==
  (dist_pdb.defined /\ RawLabelsDistinct) =>
    /\ BeforePositionFilter => ConsistentWith(dist_pdb.m, ats)
    /\ "filterPos" \in completed => ConsistentWith(distmat.m, ats)
    /\ "fasta" \in files => ConsistentWith(D.distmat.m, D.ats)

C4_Witness ==
  /\ pc = "done" /\ D.distmat.defined /\ RawLabelsDistinct
  /\ iposkeep = <<0, 2>>
  /\ D.ats = <<10, 12>>
  /\ D.distmat.m[1][2] = RawDistance(1, 3)

\* C5: the ATS is as long as the alignment it describes has columns, after
\* the ATS is built and after position filtering, in every branch; a distance
\* matrix, when there is one, has that many rows and columns at both points.
C5_AtsLengthIsColumnCount ==
  /\ BeforePositionFilter =>
       /\ Len(ats) = Len(sequences[1])
       /\ dist_pdb.defined => IsSquare(dist_pdb.m, Len(ats))
  /\ "filterPos" \in completed =>
       /\ Len(ats) = Len(alg1[1])
       /\ distmat.defined => IsSquare(distmat.m, Len(ats))
  /\ "fasta" \in files => Len(D.ats) = D.Npos

C5_Witness ==
  /\ pc = "done" /\ distmat.defined
  /\ Len(sequences[1]) = 3 /\ Len(alg1[1]) = 2 /\ Len(ats) = 2
  /\ IsSquare(distmat.m, 2)

C5_WitnessIndexBranch ==
  /\ pc = "done" /\ options.i_ref # NoIndex /\ options.truncate
  /\ Len(sequences_ori[1]) = 3 /\ Len(sequences[1]) = 1 /\ Len(ats) = 1

\* C6 as stated: in the reference-sequence-file branch without a position
\* file, the raw position list handed to makeATS is 1, 2, ..., len(reference
\* sequence).
C6_RefseqDefaultPositions ==
  (options.refseq /\ options.refpos = "none" /\ options.i_ref = NoIndex
     /\ "resolve" \in completed)
    => ats_tmp = [i \in 1..Len(s_tmp) |-> i]

\* C7 as stated: the count requested from randSel is floor(1.5 * E), E the
\* sum of the weights of the sequences kept by sequence filtering.
C7_TargetIsFloorOfOneAndAHalfE ==
  target # NotCalled =>
    target = Floor(<< 3 * SumWeights(seqw0)[1], 2 * SumWeights(seqw0)[2] >>)

\* C8 as stated: when sequence filtering keeps no sequence or position
\* filtering keeps no column, the run ends fatally and no output file is
\* written.
C8_DegenerateFilterIsFatal ==
  (\/ "filterSeq" \in completed /\ Len(seqkeep) = 0
   \/ "filterPos" \in completed /\ Len(iposkeep) = 0)
    => files = {} /\ pc # "done"

\* C9 as stated: a position file that cannot be read never ends the run, in
\* the reference-sequence-file branch and in the explicit-index branch alike.
C9_UnreadablePositionFileAbsorbed ==
  (pc # "start" /\ options.refpos = "bad" /\ Branch(options) \in {"refseq", "index"})
    => ~(pc = "fatal" /\ err = "refpos")

\* C10: a run that ends in a fatal resolution error has written no output
\* file, and a file is only ever written once reference resolution, ATS
\* building, both filters, down-selection and final weighting have completed.
C10_NoOutputBeforePipelineEnd ==
  /\ (pc = "fatal" /\ err \in ResolutionErrors) => files = {}
  /\ files # {} => Stages \subseteq completed

C10_Witness ==
  pc = "fatal" /\ err = "search" /\ files = {} /\ "pdbSeq" \in calls

\* C11: without an explicit index, a run given both a reference-sequence file
\* and a PDB id (with or without a position file) resolves through the
\* reference-sequence-file branch: the structure lookup is never invoked, the
\* PDB id is cleared, and the result carries no distance matrix.
C11_RefseqOverridesPdb ==
  (argv.i_ref = NoIndex /\ argv.refseq /\ argv.pdbid) =>
    /\ "pdbSeq" \notin calls
    /\ pc # "start" => (~options.pdbid /\ Branch(options) = "refseq")
    /\ "resolve" \in completed => "readAlg" \in calls
    /\ ~dist_pdb.defined /\ ~distmat.defined
    /\ "fasta" \in files => (~D.distmat.defined /\ ~D.pdbid)

C11_Witness ==
  /\ argv.i_ref = NoIndex /\ argv.refseq /\ argv.pdbid /\ argv.refpos = "ok"
  /\ pc = "done" /\ ~options.pdbid /\ "readAlg" \in calls
  /\ ~D.distmat.defined

\* C12 as stated: with --refindex i the reference (the row handed to makeATS,
\* its header, the index handed to filterSeq) is the sequence at position i,
\* counting from 0, of the alignment file, also when sequences before it
\* hold non-standard letters. Stated for an index that names a sequence of
\* the file which itself holds only standard letters.
C12_RefIndexNamesFilePosition ==
  (/\ pc \notin {"start", "read"}
   /\ options.i_ref # NoIndex
   /\ options.i_ref < Len(input)
   /\ IsStandard(input[options.i_ref + 1]))
    => /\ ~(pc = "fatal" /\ err = "index")
       /\ "resolve" \in completed =>
            /\ headers_full[i_ref + 1] = options.i_ref
            /\ s_tmp = input[options.i_ref + 1]
       /\ filterRef # NotCalled => headers_full[filterRef + 1] = options.i_ref

\* ============================================================ merge_data
\* predicted_single_HF_mutations.py: the two-pointer merge of the frequency
\* records with the DSSP records. freq_val is a percentage kept as an integer.
FreqRecords == { <<"X", "L", 10>>, <<"A", "L", 20>>, <<"C", "V", 30>> }

DsspRecords == { <<7, "G", "H">>, <<8, "A", "C">> }

\* the pipeline script takes no step while merge_data runs
PipelineIdle ==
  /\ pc = "idle"
  /\ options = <<>> /\ input = <<>> /\ argv = <<>>
  /\ headers_full = <<>> /\ sequences_full = <<>> /\ sequences_ori = <<>>
  /\ i_ref = NoIndex
  /\ struct = NoStruct /\ search = NoSearch
  /\ s_tmp = <<>> /\ ats_tmp = <<>>
  /\ sequences = <<>> /\ ats = <<>>
  /\ dist_pdb = NoDist
  /\ seqw0 = <<>> /\ seqkeep = <<>> /\ filterRef = NotCalled
  /\ alg0 = <<>> /\ headers = <<>> /\ msa_shape = <<0, 0>>
  /\ alg1 = <<>> /\ iposkeep = <<>>
  /\ distmat = NoDist
  /\ effseqsprelimit = 0 /\ target = NotCalled
  /\ alg = <<>> /\ hd = <<>>
  /\ D = NoD
  /\ files = {} /\ calls = {} /\ completed = {} /\ err = "none"

pipeline_vars ==
  << pc, options, input, argv, headers_full, sequences_full, sequences_ori, i_ref,
     struct, search, s_tmp, ats_tmp, sequences, ats, dist_pdb, seqw0, seqkeep,
     filterRef, alg0, headers, alg1, iposkeep, distmat, effseqsprelimit, target,
     alg, hd, msa_shape, D, files, calls, completed, err >>

\* lines 88-90: the call merge_data(freq_data, dssp_data)
MergeInit ==
  /\ PipelineIdle
  /\ freq_data \in TuplesUpTo(FreqRecords, MaxFreq)
  /\ dssp_data \in TuplesUpTo(DsspRecords, MaxDssp)
  /\ merged = <<>>
  /\ merge_i = 0 /\ merge_j = 0 /\ pos_counter = 1
  /\ mpc = "loop"

\* line 95: an 'X' record consumes no DSSP record
ConsumesDsspAlsoOnX(ref_aa_freq) == TRUE

ConsumesDssp(ref_aa_freq) == ref_aa_freq # "X"

\* lines 95-98: an unresolved ('X') record
MergeUnresolved ==
  /\ mpc = "loop" /\ merge_i < Len(freq_data)
  /\ LET rec == freq_data[merge_i + 1]
     IN  /\ ~ConsumesDssp(rec[1])
         /\ merged' = Append(merged, << pos_counter, "X", rec[2], rec[3], "NA" >>)
  /\ pos_counter' = pos_counter + 1
  /\ merge_i' = merge_i + 1
  /\ UNCHANGED << freq_data, dssp_data, merge_j, mpc, pipeline_vars >>

\* lines 101-105, 110: a resolved record takes the next DSSP record
MergeConsume ==
  /\ mpc = "loop" /\ merge_i < Len(freq_data)
  /\ LET rec == freq_data[merge_i + 1]
     IN  /\ ConsumesDssp(rec[1])
         /\ merge_j < Len(dssp_data)
         /\ merged' = Append(merged, << pos_counter, dssp_data[merge_j + 1][2], rec[2],
                                        rec[3], dssp_data[merge_j + 1][3] >>)
  /\ merge_j' = merge_j + 1
  /\ pos_counter' = pos_counter + 1
  /\ merge_i' = merge_i + 1
  /\ UNCHANGED << freq_data, dssp_data, mpc, pipeline_vars >>

\* lines 106-110: a resolved record when the DSSP records have run out
MergePartial ==
  /\ mpc = "loop" /\ merge_i < Len(freq_data)
  /\ LET rec == freq_data[merge_i + 1]
     IN  /\ ConsumesDssp(rec[1])
         /\ merge_j >= Len(dssp_data)
         /\ merged' = Append(merged, << pos_counter, rec[1], rec[2], rec[3], "NA" >>)
  /\ pos_counter' = pos_counter + 1
  /\ merge_i' = merge_i + 1
  /\ UNCHANGED << freq_data, dssp_data, merge_j, mpc, pipeline_vars >>

\* lines 92, 112: the loop ends and merged is returned
MergeReturn ==
  /\ mpc = "loop" /\ merge_i = Len(freq_data)
  /\ mpc' = "returned"
  /\ UNCHANGED << freq_data, dssp_data, merged, merge_i, merge_j, pos_counter,
                  pipeline_vars >>

MergeNext ==
  \/ MergeUnresolved
  \/ MergeConsume
  \/ MergePartial
  \/ MergeReturn

SpecMerge == MergeInit /\ [][MergeNext]_vars

\* how many of the first n frequency records are not 'X'
ResolvedUpTo(n) == Cardinality({ k \in 1..n : freq_data[k][1] # "X" })

\* the record that C13 describes for the n-th frequency record
ExpectedRecord(n) ==
  LET rec == freq_data[n]
      m == ResolvedUpTo(n)
  IN  IF rec[1] = "X" THEN << n, "X", rec[2], rec[3], "NA" >>
      ELSE IF m <= Len(dssp_data)
      THEN << n, dssp_data[m][2], rec[2], rec[3], dssp_data[m][3] >>
      ELSE << n, rec[1], rec[2], rec[3], "NA" >>

\* C13: merge_data returns one record per frequency record, in order, the
\* i-th numbered i from 1; the m-th record that is not 'X' takes the reference
\* residue and secondary structure of the m-th DSSP record when there is one
\* (else it keeps its own residue with SS 'NA'); an 'X' record yields 'X' with
\* SS 'NA' and does not advance the DSSP pointer.
C13_MergeIsTwoPointerMerge ==
  /\ \A n \in 1..Len(merged) : merged[n] = ExpectedRecord(n)
  /\ Len(merged) = merge_i
  /\ mpc = "returned" =>
       /\ Len(merged) = Len(freq_data)
       /\ merge_j = IF ResolvedUpTo(Len(freq_data)) < Len(dssp_data)
                    THEN ResolvedUpTo(Len(freq_data)) ELSE Len(dssp_data)

C13_Witness ==
  /\ mpc = "returned"
  /\ Len(freq_data) = 3 /\ Len(dssp_data) = 2
  /\ freq_data[1][1] = "X" /\ freq_data[2][1] # "X" /\ freq_data[3][1] # "X"
  /\ merged[1][2] = "X" /\ merged[1][5] = "NA"
  /\ merged[2][2] = dssp_data[1][2] /\ merged[3][5] = dssp_data[2][3]
  /\ merged[3][1] = 3

====
